---- MODULE Spec2Model ----
(***************************************************************************)
(* Model of .github/actions/ec2-runners/aws.py: a script run once per      *)
(* pipeline step that either starts ephemeral EC2 runner instances or      *)
(* stops (terminates) the instances carrying a label.  One invocation is a *)
(* straight-line process; the model runs invocations one after another     *)
(* against the same provider state and records, per invocation, the trace  *)
(* of external calls and printed lines.                                    *)
(***************************************************************************)
EXTENDS Integers, Sequences, FiniteSets, TLC

\* ---------------------------------------------------------------- bounds
MaxInvocations == 3

\* ------------------------------------------------ environment (aws.py:24-34)
amd_ami          == "INPUT_AMD_AMI_ID"
amd_instancetype == "INPUT_AMD_INSTANCE_TYPE"
arm_ami          == "INPUT_ARM_AMI_ID"
arm_instancetype == "INPUT_ARM_INSTANCE_TYPE"
repo             == "GITHUB_REPOSITORY"
securitygroup    == "INPUT_SECURITY_GROUP_ID"
subnet           == "INPUT_SUBNET"
Actions          == {"start", "stop"}
Modes            == {"buildx", "default"}

\* ------------------------------------------------ values of the outside world
\* registration tokens the REST endpoint may hand out
Tokens == {"tokA", "tokB"}
\* what the POST / r.json()["token"] can do
FetchOutcomes == {"ok", "network_error", "malformed_response", "no_token"}
\* error codes of botocore ClientError; "none" is a call that returns,
\* "BotoCoreError" an exception that is not a ClientError
ErrorCodes == {"DryRunOperation", "UnauthorizedOperation"}
CallOutcomes == {"none", "BotoCoreError"} \cup ErrorCodes

\* uuid1 fields as hexadecimal character strings (shortened); time_low is the
\* low part of the timestamp and repeats while the other fields differ
TimeLows == { <<"0", "a">>, <<"0", "b">> }
TimeMids == { <<"1">>, <<"2">> }
UUIDs == [time_low : TimeLows, time_mid : TimeMids,
          time_hi_version : {<<"1", "1">>}, clock_seq : {<<"8">>},
          node : {<<"f", "e">>}]

VARIABLES
  inv,        \* number of invocations started so far
  action,     \* INPUT_ACTION of the current invocation
  mode,       \* INPUT_MODE of the current invocation
  INPUT_LABEL,\* INPUT_LABEL of the current invocation (stop)
  pc,         \* position of the current invocation
  exit_code,  \* -1 while running, else the process exit status
  uncaught,   \* "none" or the exception that ended the process
  reg_token, label, arm_private_ip, buildx_userdata,
  instances_to_terminate,
  trace,      \* external calls, sleeps and printed lines of this invocation
  ec2,        \* the provider's instances, in creation order
  used,       \* uuids generated so far (uuid1 never repeats one)
  emitted,    \* history: <<invocation, label>> for every label output line
  creator     \* history: creator[i] is the invocation that created instance i

vars == <<inv, action, mode, INPUT_LABEL, pc, exit_code, uncaught, reg_token,
          label, arm_private_ip, buildx_userdata, instances_to_terminate,
          trace, ec2, used, emitted, creator>>

locals == <<reg_token, label, arm_private_ip, buildx_userdata,
            instances_to_terminate>>

\* ------------------------------------------------------------ pure helpers
\* str(uuid): the five hexadecimal fields joined by "-"
uuid_str(u) ==
  u.time_low \o <<"-">> \o u.time_mid \o <<"-">> \o u.time_hi_version
    \o <<"-">> \o u.clock_seq \o <<"-">> \o u.node

\* s.split(sep) of a character sequence: the list of the pieces between
\* separators; cur is the piece being collected
RECURSIVE SplitFrom(_, _, _)
SplitFrom(s, sep, cur) ==
  IF s = <<>> THEN <<cur>>
  ELSE IF Head(s) = sep
       THEN <<cur>> \o SplitFrom(Tail(s), sep, <<>>)
       ELSE SplitFrom(Tail(s), sep, Append(cur, Head(s)))

Split(s, sep) == SplitFrom(s, sep, <<>>)

\* make_label(): str(uuid.uuid1()).split("-")[0], u being the uuid1 drawn
make_label(u) == Split(uuid_str(u), "-")[1]

\* A formatted string is a sequence of segments: template text ("lit"), an
\* interpolated string ("str") or an interpolated character sequence ("chars")
Lit(s)   == [kind |-> "lit",   val |-> s]
Str(s)   == [kind |-> "str",   val |-> s]
Chars(s) == [kind |-> "chars", val |-> s]

\* variant: the /etc/hosts line is missing from the fragment
buildx_fragment_nohosts(ip) ==
  << Lit("DOCKER_HOST=tcp://buildx:2375 docker buildx create --name cluster"),
     Lit("docker buildx create --name cluster --append"),
     Lit("docker buildx use cluster"),
     Lit("docker buildx inspect --bootstrap") >>

\* the buildx_userdata f-string of the buildx branch
buildx_fragment(ip) ==
  << Lit("echo \""), Str(ip), Lit(" buildx\" >> /etc/hosts"),
     Lit("DOCKER_HOST=tcp://buildx:2375 docker buildx create --name cluster"),
     Lit("docker buildx create --name cluster --append"),
     Lit("docker buildx use cluster"),
     Lit("docker buildx inspect --bootstrap") >>

\* variant: the template passes the label where the token belongs
amd_userdata_notoken(bx, tok, lbl) ==
  << Lit("#!/bin/bash") >> \o bx \o
  << Lit("RUNNER_ALLOW_RUNASROOT=1 ./config.sh --url https://github.com/"),
     Str(repo), Lit(" --token "), Chars(lbl), Lit(" --labels "), Chars(lbl),
     Lit(" --ephemeral --unattended"),
     Lit("RUNNER_ALLOW_RUNASROOT=1 ./run.sh") >>

\* the amd_userdata f-string
amd_userdata(bx, tok, lbl) ==
  << Lit("#!/bin/bash") >> \o bx \o
  << Lit("mkdir /tmp/actions-runner && cd /tmp/actions-runner"),
     Lit("curl -o actions-runner-linux-x64-2.288.1.tar.gz -L ..."),
     Lit("tar xzf ./actions-runner-linux-x64-2.288.1.tar.gz"),
     Lit("RUNNER_ALLOW_RUNASROOT=1 ./config.sh --url https://github.com/"),
     Str(repo), Lit(" --token "), Str(tok), Lit(" --labels "), Chars(lbl),
     Lit(" --ephemeral --unattended"),
     Lit("RUNNER_ALLOW_RUNASROOT=1 ./run.sh") >>

\* variant: the Name tag holds a fixed value instead of the label
NameTags_fixed(lbl) == << [Key |-> "Name", Value |-> <<"r", "u", "n">>] >>

\* the Tags list of create_instance
NameTags(lbl) == << [Key |-> "Name", Value |-> lbl] >>

\* create_instance(ami, instancetype, label, userdata): the run_instances
\* request it sends
create_instance(ami, instancetype, lbl, userdata) ==
  [ BlockDeviceMappings |->
      << [DeviceName |-> "/dev/xvda",
          Ebs |-> [DeleteOnTermination |-> TRUE, VolumeSize |-> 30,
                   VolumeType |-> "gp2"]] >>,
    ImageId |-> ami, InstanceType |-> instancetype,
    MaxCount |-> 1, MinCount |-> 1,
    Monitoring |-> [Enabled |-> FALSE],
    SecurityGroupIds |-> <<securitygroup>>, SubnetId |-> subnet,
    TagSpecifications |->
      << [ResourceType |-> "instance", Tags |-> NameTags(lbl)] >>,
    UserData |-> userdata ]

\* ------------------------------------------------------------ the provider
\* private addresses the provider assigns, by order of creation
IpPool == << "10.0.0.1", "10.0.0.2", "10.0.0.3", "10.0.0.4", "10.0.0.5",
             "10.0.0.6", "10.0.0.7", "10.0.0.8", "10.0.0.9", "10.0.0.10" >>

\* instance ids the provider assigns, by order of creation
IdPool == << "i-01", "i-02", "i-03", "i-04", "i-05",
             "i-06", "i-07", "i-08", "i-09", "i-10" >>

\* the instance a successful run_instances creates for request req
NewInstance(req) ==
  [ InstanceId |-> IdPool[Len(ec2) + 1],
    PrivateIpAddress |-> IpPool[Len(ec2) + 1],
    Tags |-> req.TagSpecifications[1].Tags,
    State |-> "running" ]

\* does instance i carry tag Name with a value among vals
HasNameTag(i, vals) ==
  \E k \in 1..Len(i.Tags) : i.Tags[k].Key = "Name" /\ i.Tags[k].Value \in vals

\* describe_instances(Filters=[{'Name':'tag:Name','Values':[tag]}]): every
\* run_instances call made one reservation holding its one instance
describe_instances(tag) ==
  LET match == SelectSeq(ec2, LAMBDA i : HasNameTag(i, {tag}))
  IN  [ Reservations |->
          [ r \in 1..Len(match) |-> [Instances |-> << match[r] >>] ] ]

\* variant: only response["Reservations"][0] is read
InstanceIdsOf_first(reservations) ==
  IF reservations = <<>> THEN <<>>
  ELSE [ k \in 1..Len(Head(reservations).Instances) |->
           Head(reservations).Instances[k].InstanceId ]

\* the two nested loops of get_instances_from_tag
RECURSIVE InstanceIdsOf(_)
InstanceIdsOf(reservations) ==
  IF reservations = <<>> THEN <<>>
  ELSE [ k \in 1..Len(Head(reservations).Instances) |->
           Head(reservations).Instances[k].InstanceId ]
       \o InstanceIdsOf(Tail(reservations))

get_instances_from_tag(tag) == InstanceIdsOf(describe_instances(tag).Reservations)

\* str(e) of a ClientError with the given error code
ClientErrorText(code) ==
  << "An error occurred (", code, ") when calling the ",
     "TerminateInstances", " operation" >>

\* 'DryRunOperation' in str(e)
HasDryRunMarker(text) == \E k \in 1..Len(text) : text[k] = "DryRunOperation"

\* variant: the except clause never re-raises a ClientError
AfterDryRun_noreraise(outcome) ==
  IF outcome = "none" \/ outcome \in ErrorCodes THEN "go_on" ELSE "raise"

\* what terminate_instances does with the outcome of the DryRun=True call:
\* "raise" lets the exception out, "go_on" falls through to the real call
AfterDryRun(outcome) ==
  IF outcome = "none" THEN "go_on"
  ELSE IF outcome \in ErrorCodes
       THEN IF ~HasDryRunMarker(ClientErrorText(outcome)) THEN "raise"
            ELSE "go_on"
       ELSE "raise"

\* variant: a ClientError of the real call is not caught
AfterRealCall_raise(outcome) ==
  IF outcome = "none" THEN "success" ELSE "raise"

\* what terminate_instances does with the outcome of the DryRun=False call
AfterRealCall(outcome) ==
  IF outcome = "none" THEN "success"
  ELSE IF outcome \in ErrorCodes THEN "print_error"
       ELSE "raise"

\* variant: the except clause swallows the failure and returns
AfterFetch_swallow(outcome) == "return"

\* what get_regtoken does with the outcome of the POST and r.json()["token"]
AfterFetch(outcome) == IF outcome = "ok" THEN "return" ELSE "exit"

\* ----------------------------------------------------------- trace events
Stdout(line)        == [ev |-> "print", line |-> line]
RunEvent(req, ok)  == [ev |-> "run_instances", req |-> req, ok |-> ok,
                       resp |-> IF ok THEN [Instances |-> <<NewInstance(req)>>]
                                ELSE [Instances |-> <<>>]]
PostEvent(outcome, tok) == [ev |-> "post", outcome |-> outcome, token |-> tok]
SleepEvent(secs)   == [ev |-> "sleep", secs |-> secs]
TermEvent(ids, dry, outcome) ==
  [ev |-> "terminate_instances", InstanceIds |-> ids, DryRun |-> dry,
   outcome |-> outcome]

Terminal == {"idle", "done", "exited", "crashed"}

\* ------------------------------------------------------------------- Init
Init ==
  /\ inv = 0
  /\ action = "start"
  /\ mode = "default"
  /\ INPUT_LABEL = <<>>
  /\ pc = "idle"
  /\ exit_code = -1
  /\ uncaught = "none"
  /\ reg_token = ""
  /\ label = <<>>
  /\ arm_private_ip = ""
  /\ buildx_userdata = <<>>
  /\ instances_to_terminate = <<>>
  /\ trace = <<>>
  /\ ec2 = <<>>
  /\ used = {}
  /\ emitted = <<>>
  /\ creator = <<>>

\* the process ends with an uncaught exception e (Python exits with status 1)
Crash(e) ==
  /\ pc' = "crashed"
  /\ exit_code' = 1
  /\ uncaught' = e

\* the script runs off its end
Finish ==
  /\ pc' = "done"
  /\ exit_code' = 0
  /\ UNCHANGED uncaught

\* ------------------------------------------------------------ invocations
\* a pipeline step runs the script with the given environment
Invoke(a, m, lbl) ==
  /\ pc \in Terminal
  /\ inv < MaxInvocations
  /\ inv' = inv + 1
  /\ action' = a
  /\ mode' = m
  /\ INPUT_LABEL' = lbl
  /\ pc' = IF a = "start" THEN "get_regtoken" ELSE "get_instances"
  /\ exit_code' = -1
  /\ uncaught' = "none"
  /\ reg_token' = ""
  /\ label' = <<>>
  /\ arm_private_ip' = ""
  /\ buildx_userdata' = <<>>
  /\ instances_to_terminate' = <<>>
  /\ trace' = <<>>
  /\ UNCHANGED <<ec2, used, emitted, creator>>

InvokeStart == \E m \in Modes : Invoke("start", m, <<>>)

InvokeStop == \E lbl \in TimeLows : Invoke("stop", "default", lbl)

\* -------------------------------------------------------- the start branch
\* reg_token = get_regtoken()
GetRegtoken ==
  /\ pc = "get_regtoken"
  /\ \E outcome \in FetchOutcomes :
       IF AfterFetch(outcome) = "return"
       THEN /\ \E tok \in Tokens :
                 /\ reg_token' = tok
                 /\ trace' = Append(trace, PostEvent(outcome, tok))
            /\ pc' = "make_label"
            /\ UNCHANGED <<exit_code, uncaught>>
       ELSE /\ trace' = trace \o
                 << PostEvent(outcome, ""),
                    Stdout(<<"ERROR: Unable to get GHA self-hosted registration token">>) >>
            /\ pc' = "exited"
            /\ exit_code' = 1
            /\ UNCHANGED <<uncaught, reg_token>>
  /\ UNCHANGED <<inv, action, mode, INPUT_LABEL, label, arm_private_ip,
                 buildx_userdata, instances_to_terminate, ec2, used, emitted,
                 creator>>

\* label = make_label(); print; the else branch sets buildx_userdata = ""
MakeLabel ==
  /\ pc = "make_label"
  /\ \E u \in UUIDs \ used :
       /\ used' = used \cup {u}
       /\ label' = make_label(u)
       /\ trace' = Append(trace,
             Stdout(<<"Creating instances with tag ", make_label(u)>>))
  /\ pc' = IF mode = "buildx" THEN "create_arm" ELSE "emit_label"
  /\ UNCHANGED <<inv, action, mode, INPUT_LABEL, exit_code, uncaught,
                 reg_token, arm_private_ip, buildx_userdata,
                 instances_to_terminate, ec2, emitted, creator>>

\* one call of ec2client.run_instances inside create_instance
RunInstances(req, ok) ==
  /\ trace' = Append(trace, RunEvent(req, ok))
  /\ IF ok
     THEN /\ ec2' = Append(ec2, NewInstance(req))
          /\ creator' = Append(creator, inv)
     ELSE UNCHANGED <<ec2, creator>>

\* arminstance = create_instance(arm_ami, arm_instancetype, label, "")
CreateArm ==
  /\ pc = "create_arm"
  /\ \E ok \in BOOLEAN :
       LET req == create_instance(arm_ami, arm_instancetype, label, <<>>)
       IN  /\ RunInstances(req, ok)
           /\ IF ok
              THEN /\ arm_private_ip' = NewInstance(req).PrivateIpAddress
                   /\ pc' = "sleep"
                   /\ UNCHANGED <<exit_code, uncaught>>
              ELSE /\ Crash("ClientError")
                   /\ UNCHANGED arm_private_ip
  /\ UNCHANGED <<inv, action, mode, INPUT_LABEL, reg_token, label,
                 buildx_userdata, instances_to_terminate, used, emitted>>

\* time.sleep(20), then the buildx_userdata f-string
Sleep ==
  /\ pc = "sleep"
  /\ trace' = Append(trace, SleepEvent(20))
  /\ buildx_userdata' = buildx_fragment(arm_private_ip)
  /\ pc' = "emit_label"
  /\ UNCHANGED <<inv, action, mode, INPUT_LABEL, exit_code, uncaught,
                 reg_token, label, arm_private_ip, instances_to_terminate,
                 ec2, used, emitted, creator>>

\* print(f"::set-output name=label::{label}")
EmitLabel ==
  /\ pc = "emit_label"
  /\ trace' = Append(trace, Stdout(<<"::set-output name=label::", label>>))
  /\ emitted' = Append(emitted, <<inv, label>>)
  /\ pc' = "create_amd"
  /\ UNCHANGED <<inv, action, mode, INPUT_LABEL, exit_code, uncaught,
                 reg_token, label, arm_private_ip, buildx_userdata,
                 instances_to_terminate, ec2, used, creator>>

\* amdinstance = create_instance(amd_ami, amd_instancetype, label, amd_userdata)
CreateAmd ==
  /\ pc = "create_amd"
  /\ \E ok \in BOOLEAN :
       /\ RunInstances(create_instance(amd_ami, amd_instancetype, label,
                         amd_userdata(buildx_userdata, reg_token, label)), ok)
       /\ IF ok THEN Finish ELSE Crash("ClientError")
  /\ UNCHANGED <<inv, action, mode, INPUT_LABEL, reg_token, label,
                 arm_private_ip, buildx_userdata, instances_to_terminate,
                 used, emitted>>

\* --------------------------------------------------------- the stop branch
\* instances_to_terminate = get_instances_from_tag(tag); print
GetInstances ==
  /\ pc = "get_instances"
  /\ \E ok \in BOOLEAN :
       IF ok
       THEN /\ instances_to_terminate' = get_instances_from_tag(INPUT_LABEL)
            /\ trace' = Append(trace,
                  Stdout(get_instances_from_tag(INPUT_LABEL)))
            /\ pc' = "dry_run"
            /\ UNCHANGED <<exit_code, uncaught>>
       ELSE /\ Crash("ClientError")
            /\ UNCHANGED <<instances_to_terminate, trace>>
  /\ UNCHANGED <<inv, action, mode, INPUT_LABEL, reg_token, label,
                 arm_private_ip, buildx_userdata, ec2, used, emitted, creator>>

\* ec2client.terminate_instances(InstanceIds=..., DryRun=True)
DryRun ==
  /\ pc = "dry_run"
  /\ \E outcome \in CallOutcomes :
       /\ trace' = Append(trace,
             TermEvent(instances_to_terminate, TRUE, outcome))
       /\ IF AfterDryRun(outcome) = "raise"
          THEN Crash(IF outcome \in ErrorCodes THEN "ClientError" ELSE outcome)
          ELSE /\ pc' = "real_call"
               /\ UNCHANGED <<exit_code, uncaught>>
  /\ UNCHANGED <<inv, action, mode, INPUT_LABEL, reg_token, label,
                 arm_private_ip, buildx_userdata, instances_to_terminate,
                 ec2, used, emitted, creator>>

\* the provider shuts down the instances named in ids
Terminated(ids) ==
  [ k \in 1..Len(ec2) |->
      IF \E j \in 1..Len(ids) : ids[j] = ec2[k].InstanceId
      THEN [ec2[k] EXCEPT !.State = "shutting-down"]
      ELSE ec2[k] ]

\* ec2client.terminate_instances(InstanceIds=..., DryRun=False)
RealCall ==
  /\ pc = "real_call"
  /\ \E outcome \in CallOutcomes :
       LET call == TermEvent(instances_to_terminate, FALSE, outcome)
           what == AfterRealCall(outcome)
       IN  /\ trace' = IF what = "success"
                       THEN trace \o <<call, Stdout(<<"Termination was successful">>)>>
                       ELSE IF what = "print_error"
                            THEN trace \o <<call, Stdout(ClientErrorText(outcome))>>
                            ELSE Append(trace, call)
           /\ ec2' = IF what = "success"
                     THEN Terminated(instances_to_terminate) ELSE ec2
           /\ IF what = "raise" THEN Crash(outcome) ELSE Finish
  /\ UNCHANGED <<inv, action, mode, INPUT_LABEL, reg_token, label,
                 arm_private_ip, buildx_userdata, instances_to_terminate,
                 used, emitted, creator>>

Next ==
  \/ InvokeStart
  \/ InvokeStop
  \/ GetRegtoken
  \/ MakeLabel
  \/ CreateArm
  \/ Sleep
  \/ EmitLabel
  \/ CreateAmd
  \/ GetInstances
  \/ DryRun
  \/ RealCall

Spec == Init /\ [][Next]_vars


\* =================================================================== claims
\* positions of the trace holding an event of the given kind
At(kind) == { k \in 1..Len(trace) : trace[k].ev = kind }

\* positions of run_instances calls, and of those for a given image
RunAt == At("run_instances")
RunOf(ami) == { k \in RunAt : trace[k].req.ImageId = ami }

\* positions of terminate_instances calls with the given DryRun flag
TermAt(dry) == { k \in At("terminate_instances") : trace[k].DryRun = dry }

\* positions of printed lines that begin with the given text
LineAt(text) ==
  { k \in At("print") : Len(trace[k].line) >= 1 /\ trace[k].line[1] = text }

\* in the formatted string ud, segment seg directly follows template text lit
Follows(ud, lit, seg) ==
  \E k \in 1..(Len(ud) - 1) :
     /\ ud[k].kind = "lit" /\ ud[k].val = lit
     /\ ud[k + 1].kind = seg.kind /\ ud[k + 1].val = seg.val

\* the set of elements of a sequence
Range(s) == { s[k] : k \in 1..Len(s) }

\* C1: in a start invocation, once the registration-token fetch has failed the
\* process has exited with status 1 (by sys.exit, not by an exception) and the
\* invocation has made no run_instances call and created no instance
C1_FetchFailureExitsBeforeCreate ==
  action = "start" =>
    \A k \in At("post") :
       trace[k].outcome # "ok" =>
         /\ pc = "exited"
         /\ exit_code = 1
         /\ uncaught = "none"
         /\ RunAt = {}
         /\ \A i \in 1..Len(creator) : creator[i] # inv

C1_Witness ==
  /\ action = "start"
  /\ pc = "exited"
  /\ \E k \in At("post") : trace[k].outcome = "no_token"
  /\ LineAt("ERROR: Unable to get GHA self-hosted registration token") # {}

\* C2: in a stop invocation, once the DryRun=True call has raised a ClientError
\* whose text lacks 'DryRunOperation', the process has ended with that
\* ClientError uncaught and no DryRun=False call has been made
C2_GenuineDryRunErrorPropagates ==
  action = "stop" =>
    \A k \in TermAt(TRUE) :
       (/\ trace[k].outcome \in ErrorCodes
        /\ ~HasDryRunMarker(ClientErrorText(trace[k].outcome))) =>
         /\ pc = "crashed"
         /\ uncaught = "ClientError"
         /\ exit_code # 0
         /\ TermAt(FALSE) = {}
         /\ k = Len(trace)

C2_Witness ==
  /\ action = "stop"
  /\ pc = "crashed"
  /\ \E k \in TermAt(TRUE) :
        /\ trace[k].outcome = "UnauthorizedOperation"
        /\ Len(trace[k].InstanceIds) >= 1

\* the ids of the provider's instances whose Name tag is the stop label
MatchingIds ==
  { ec2[i].InstanceId : i \in { j \in 1..Len(ec2) :
       \E t \in Range(ec2[j].Tags) : t.Key = "Name" /\ t.Value = INPUT_LABEL } }

\* C3: in a stop invocation every terminate_instances call carries exactly the
\* ids of the instances tagged with the label, each once; the DryRun=True call
\* is made once and precedes the DryRun=False call, which is made at most once
\* and, once the dry-run step is passed and the call is done, exactly once
C3_DryRunThenRealWithSameIds ==
  action = "stop" =>
    /\ \A k \in At("terminate_instances") :
          /\ Range(trace[k].InstanceIds) = MatchingIds
          /\ Len(trace[k].InstanceIds) = Cardinality(MatchingIds)
    /\ Cardinality(TermAt(TRUE)) <= 1
    /\ Cardinality(TermAt(FALSE)) <= 1
    /\ \A r \in TermAt(FALSE) :
          \E d \in TermAt(TRUE) :
             /\ d < r
             /\ trace[d].InstanceIds = trace[r].InstanceIds
    /\ pc = "done" => Cardinality(TermAt(FALSE)) = 1

C3_Witness ==
  /\ action = "stop"
  /\ pc = "done"
  /\ \E r \in TermAt(FALSE) : Len(trace[r].InstanceIds) = 2

\* the lookup of this stop invocation returned no instance
ZeroMatch ==
  /\ action = "stop"
  /\ pc \in {"dry_run", "real_call", "done", "crashed"}
  /\ instances_to_terminate = <<>>
  /\ At("print") # {}

\* C4: a stop invocation whose label matches no instance ends normally (exit
\* status 0, no uncaught exception) and names no instance id in any
\* terminate_instances call
C4_ZeroMatchCompletesWithoutError ==
  ZeroMatch =>
    /\ \A k \in At("terminate_instances") : trace[k].InstanceIds = <<>>
    /\ pc \in Terminal => (exit_code = 0 /\ uncaught = "none")

\* C5: a start invocation with mode other than buildx never makes more than
\* one run_instances call, and once the process has ended after a successful
\* token fetch it has made exactly one, for the AMD image, whose boot script
\* holds the fetched token after --token and the generated label after --labels
C5_DefaultModeCreatesOnce ==
  (action = "start" /\ mode # "buildx") =>
    /\ Cardinality(RunAt) <= 1
    /\ (pc \in {"done", "crashed"}) =>
         /\ Cardinality(RunAt) = 1
         /\ \A k \in RunAt :
              /\ trace[k].req.ImageId = amd_ami
              /\ trace[k].req.MinCount = 1 /\ trace[k].req.MaxCount = 1
              /\ \E p \in At("post") :
                    /\ trace[p].outcome = "ok"
                    /\ Follows(trace[k].req.UserData, " --token ",
                               Str(trace[p].token))
              /\ \E g \in LineAt("Creating instances with tag ") :
                    Follows(trace[k].req.UserData, " --labels ",
                            Chars(trace[g].line[2]))

C5_Witness ==
  /\ action = "start" /\ mode # "buildx"
  /\ pc = "done"
  /\ Cardinality(RunAt) = 1
  /\ Len(ec2) >= 1 /\ creator[Len(ec2)] = inv

\* C6: a start invocation in buildx mode never makes more than two
\* run_instances calls; once the primary call has been made (in particular once
\* the script has run to its end) there are exactly two: first the ARM helper
\* with an empty boot script, then a 20 second sleep, then the AMD instance
\* whose boot script writes the private address returned by the first call
C6_BuildxCreatesHelperThenPrimary ==
  (action = "start" /\ mode = "buildx") =>
    /\ Cardinality(RunAt) <= 2
    /\ pc = "done" => RunOf(amd_ami) # {}
    /\ \A m \in RunOf(amd_ami) :
          /\ Cardinality(RunAt) = 2
          /\ \E a \in RunOf(arm_ami) :
                /\ a < m
                /\ trace[a].req.UserData = <<>>
                /\ trace[a].ok
                /\ \E s \in At("sleep") : a < s /\ s < m /\ trace[s].secs = 20
                /\ Follows(trace[m].req.UserData, "echo \"",
                     Str(trace[a].resp.Instances[1].PrivateIpAddress))

C6_Witness ==
  /\ action = "start" /\ mode = "buildx"
  /\ pc = "done"
  /\ Cardinality(RunAt) = 2

\* C7: in a start invocation one label is generated; every run_instances
\* request carries exactly one tag, Name, with that label; every instance the
\* invocation created carries exactly that tag; the AMD boot script registers
\* the runner under that label; the output line holds that label
C7_OneLabelEverywhere ==
  action = "start" =>
    /\ Cardinality(LineAt("Creating instances with tag ")) <= 1
    /\ \A g \in LineAt("Creating instances with tag ") :
          LET l == trace[g].line[2] IN
          /\ label = l
          /\ l # <<>>
          /\ \A k \in RunAt :
                /\ Len(trace[k].req.TagSpecifications) = 1
                /\ trace[k].req.TagSpecifications[1].Tags
                     = << [Key |-> "Name", Value |-> l] >>
          /\ \A m \in RunOf(amd_ami) :
                Follows(trace[m].req.UserData, " --labels ", Chars(l))
          /\ \A o \in LineAt("::set-output name=label::") :
                trace[o].line[2] = l
          /\ \A i \in 1..Len(ec2) :
                creator[i] = inv =>
                  ec2[i].Tags = << [Key |-> "Name", Value |-> l] >>
    /\ (RunAt # {} \/ LineAt("::set-output name=label::") # {})
          => LineAt("Creating instances with tag ") # {}

C7_Witness ==
  /\ action = "start" /\ mode = "buildx"
  /\ pc = "done"
  /\ LineAt("::set-output name=label::") # {}
  /\ Cardinality({ i \in 1..Len(ec2) : creator[i] = inv }) = 2

\* C8: in a start invocation the label output line is printed only after the
\* primary (AMD) run_instances call has been made and has succeeded
C8_LabelEmittedAfterPrimaryLaunch ==
  action = "start" =>
    \A o \in LineAt("::set-output name=label::") :
       \E m \in RunOf(amd_ami) : m < o /\ trace[m].ok

\* C9: in a stop invocation, once the DryRun=False call has raised a
\* ClientError the error text is the last thing printed, no success message is
\* printed, the call was made once, and the process has ended with status 0
C9_RealCallErrorIsPrintedOnly ==
  action = "stop" =>
    \A r \in TermAt(FALSE) :
       trace[r].outcome \in ErrorCodes =>
         /\ pc = "done"
         /\ exit_code = 0
         /\ uncaught = "none"
         /\ Cardinality(TermAt(FALSE)) = 1
         /\ Len(trace) = r + 1
         /\ trace[r + 1].ev = "print"
         /\ trace[r + 1].line = ClientErrorText(trace[r].outcome)
         /\ \A p \in At("print") :
               trace[p].line # <<"Termination was successful">>

C9_Witness ==
  /\ action = "stop"
  /\ pc = "done"
  /\ \E r \in TermAt(FALSE) :
        /\ trace[r].outcome = "UnauthorizedOperation"
        /\ Len(trace[r].InstanceIds) >= 1

\* C10: a stop invocation given the label that a start invocation emitted
\* names, in every terminate_instances call, exactly the instances that start
\* invocation created
C10_StopTerminatesOnlyOwnInstances ==
  action = "stop" =>
    \A k \in At("terminate_instances") :
       \A e \in 1..Len(emitted) :
          emitted[e][2] = INPUT_LABEL =>
            Range(trace[k].InstanceIds)
              = { ec2[i].InstanceId :
                    i \in { j \in 1..Len(creator) : creator[j] = emitted[e][1] } }
====
